---------------------------- MODULE Spec2Model ----------------------------
(***************************************************************************)
(* capture-device-info, DirectShow backend (src/src/dshow.rs, lib.rs).     *)
(*                                                                         *)
(* One call of capture_devices() is modelled as a sequential process whose *)
(* position is pc.  Every native (COM / DirectShow) call is one step; its  *)
(* answer is chosen by the platform, nondeterministically, when the call   *)
(* is made.  What the platform answered is kept in the history variables   *)
(* yielded and hardError, which the code never reads.                      *)
(*                                                                         *)
(* Numbers.  A frame rate is an f64 that dshow.rs builds as                *)
(* ((1e7 / ticks) * 100).round() / 100, so it is either +infinity          *)
(* (ticks = 0) or fl(c / 100) for an integer count c of hundredths; the    *)
(* model keeps c.  For every tick interval from 1 to 2,000,000 the f64     *)
(* computation yields the same c as exact rounding to nearest, ties up.    *)
(* Widths and heights are small enough that width * height * c is exact.   *)
(* Both facts were established by running the f64 arithmetic itself.       *)
(***************************************************************************)
EXTENDS Integers, Sequences, FiniteSets

\* ------------------------------------------------------------------ bounds
MaxDevices == 2      \* device handles the enumerator may yield (driver worlds)
MaxPins    == 2      \* pins one filter may yield
MaxTypes   == 2      \* media types one pin may yield

\* ------------------------------------------------------- the platform's data
FORMAT_VideoInfo  == "FORMAT_VideoInfo"
FORMAT_VideoInfo2 == "FORMAT_VideoInfo2"
FORMAT_Other      == "FORMAT_WaveFormatEx"

PINDIR_INPUT  == "PINDIR_INPUT"
PINDIR_OUTPUT == "PINDIR_OUTPUT"

\* An AM_MEDIA_TYPE: its formattype tag and, behind pbFormat, the header
\* fields read from it: biWidth, biHeight (i32) and AvgTimePerFrame (i64,
\* in 100 ns ticks).  A tag other than the two video ones hides no header.
OtherFormats ==
    [formattype : {FORMAT_Other},
     biWidth : {0}, biHeight : {0}, AvgTimePerFrame : {0}]

Formats(widths, heights, ticks) ==
    [formattype : {FORMAT_VideoInfo, FORMAT_VideoInfo2},
     biWidth : widths, biHeight : heights, AvgTimePerFrame : ticks]
    \cup OtherFormats

\* One plain video mode (320 x 240, 30 fps), for the world with several
\* devices.
BasicFormats == Formats({320}, {240}, {333333})

\* Sizes whose areas tie (320 x 120 and 160 x 240), bottom-up and top-down
\* bitmaps, and two tick intervals that both round to 30.00 fps.
SizeFormats == Formats({160, 320}, {-120, 120, 240}, {333332, 333334})

\* Degenerate headers: zero width and a zero tick interval.
DegenerateFormats == Formats({0, 320}, {240}, {0, 333333})

\* 19.99 fps, 19.98 fps and 30 fps.
SlowFormats == Formats({320}, {240}, {500250, 500500, 333333})

\* Property values a property bag may hold.
Strings == {"USB Camera", "Webcam"}

\* --------------------------------------------------------------- f64 values
Fin(c) == [inf |-> FALSE, c |-> c]
Inf == [inf |-> TRUE, c |-> 0]

\* n / d rounded to the nearest integer, halves away from zero (n >= 0, d > 0).
RoundDiv(n, d) ==
    LET q == n \div d
        r == n % d
    IN  IF 2 * r >= d THEN q + 1 ELSE q

\* MediaType::frame_rate: Some(frame rate, in hundredths) or None.
\* 10_000_000.0 / 0.0 is +infinity, which round() and / 100.0 leave alone.
FrameRate(mt) ==
    IF mt.formattype \in {FORMAT_VideoInfo, FORMAT_VideoInfo2}
    THEN IF mt.AvgTimePerFrame = 0 THEN Inf
         ELSE Fin(RoundDiv(1000000000, mt.AvgTimePerFrame))
    ELSE "None"

\* MediaType::bitmap_info: Some(header) for the two recognized shapes.
BitmapInfo(mt) ==
    IF mt.formattype = FORMAT_VideoInfo THEN "Some"
    ELSE IF mt.formattype = FORMAT_VideoInfo2 THEN "Some"
    ELSE "None"

\* i32::unsigned_abs.
UnsignedAbs(h) == IF h < 0 THEN -h ELSE h

\* The hundredths c, from 19.90 to 20.10 fps, for which fl(fl(c / 100) * 100) < c in IEEE-754 binary64
\* (19.99 * 100.0 = 1998.9999999999998).
LossyHundredths == {1990, 1999, 2006, 2008}

\* CaptureDeviceResolution::frame_rate_by_units: (frame_rate * 1e2) as i64.
\* The cast truncates toward zero and saturates +infinity to i64::MAX.
FrameRateByUnits(r) ==
    IF r.frame_rate.inf THEN [sat |-> TRUE, u |-> 0]
    ELSE [sat |-> FALSE,
          u |-> IF r.frame_rate.c \in LossyHundredths
                THEN r.frame_rate.c - 1 ELSE r.frame_rate.c]

\* A PartialEq that compares the wrong pair of fields.
ResolutionEqSlip(a, b) ==
    /\ a.width = b.height
    /\ a.height = b.height
    /\ FrameRateByUnits(a) = FrameRateByUnits(b)

\* impl PartialEq for CaptureDeviceResolution.
ResolutionEq(a, b) ==
    /\ a.width = b.width
    /\ a.height = b.height
    /\ FrameRateByUnits(a) = FrameRateByUnits(b)

\* HashSet::insert on the set held as the sequence of its members in the
\* order they were inserted: a value equal to a member is not inserted.
HashSetInsert(set, r) ==
    IF \E i \in 1..Len(set) : ResolutionEq(set[i], r) THEN set
    ELSE Append(set, r)

\* (a.width as f64) * (a.height as f64) * a.frame_rate.
\* 0 * infinity is NaN; a positive number times infinity is infinity.
Product(r) ==
    IF r.frame_rate.inf
    THEN IF r.width * r.height = 0 THEN [kind |-> "nan", v |-> 0]
         ELSE [kind |-> "inf", v |-> 0]
    ELSE [kind |-> "fin", v |-> r.width * r.height * r.frame_rate.c]

\* f64::partial_cmp on products: None when either side is NaN.
PartialCmp(x, y) ==
    IF x.kind = "nan" \/ y.kind = "nan" THEN "None"
    ELSE IF x.kind = "inf" /\ y.kind = "inf" THEN "Equal"
    ELSE IF x.kind = "inf" THEN "Greater"
    ELSE IF y.kind = "inf" THEN "Less"
    ELSE IF x.v < y.v THEN "Less"
    ELSE IF x.v > y.v THEN "Greater"
    ELSE "Equal"

\* A comparator with its operands the other way round.
CompareAscending(a, b) == PartialCmp(Product(a), Product(b))

\* The closure given to sort_unstable_by: b.partial_cmp(&a), before unwrap.
Compare(a, b) == PartialCmp(Product(b), Product(a))


\* CaptureDeviceResolution { width, height, frame_rate } built from a
\* recognized descriptor (dshow.rs, the body of the media type loop).
Resolution(mt) ==
    [width |-> mt.biWidth,              \* bi.biWidth as u32, biWidth >= 0 here
     height |-> UnsignedAbs(mt.biHeight),
     frame_rate |-> FrameRate(mt)]

\* The members of a sequence.
Range(s) == { s[i] : i \in 1..Len(s) }

\* resolution.into_iter().collect(): the members at places I of the set,
\* each once, in whatever order the HashSet iterates.
RECURSIVE Arrangements(_, _)
Arrangements(set, I) ==
    IF I = {} THEN {<< >>}
    ELSE UNION { { <<set[i]>> \o t : t \in Arrangements(set, I \ {i}) } :
                 i \in I }

\* Collecting the set into a Vec and never sorting it.
NoSort(set) == Arrangements(set, 1..Len(set))

\* The arrangements that sort_unstable_by(Compare) can leave: those in which
\* no element compares Greater than a later one.
RECURSIVE SortedArrangements(_, _)
SortedArrangements(set, I) ==
    IF I = {} THEN {<< >>}
    ELSE UNION { { <<set[i]>> \o t : t \in SortedArrangements(set, I \ {i}) } :
                 i \in { j \in I :
                         \A k \in I : Compare(set[j], set[k]) # "Greater" } }

\* resolution.into_iter().collect() followed by sort_unstable_by(Compare):
\* HashSet iteration order is arbitrary and the sort is unstable, so every
\* sorted arrangement of the members is a possible outcome.  (Used only
\* when no comparison is None.)
SortUnstableBy(set) == SortedArrangements(set, 1..Len(set))

\* Whether sort_unstable_by panics: with two or more elements every element
\* is compared at least once, and unwrap() panics on a None comparison.
SortPanics(set) ==
    /\ Len(set) >= 2
    /\ \E i \in 1..Len(set) : Product(set[i]).kind = "nan"

\* HRESULTs of the native Next calls, and HRESULT::is_ok (hr >= 0).
S_OK    == "S_OK"
S_FALSE == "S_FALSE"
E_FAIL  == "E_FAIL"
IsOk(hr) == hr \in {S_OK, S_FALSE}

\* Iterator::next of MonikerIterator, PinIterator and MediaTypeIterator:
\* the fetched item when hr.is_ok(), None otherwise; a null item is None.
IteratorNext(hr, item) == IF IsOk(hr) THEN item ELSE "None"

\* The native enumerators' contract: S_OK comes with an item, S_FALSE and
\* failures with none.
NextAnswers(more) ==
    { <<S_FALSE, "None">>, <<E_FAIL, "None">> }
    \cup (IF more THEN { <<S_OK, "Some">> } ELSE {})

\* Reading FriendlyName whatever the first read answered.
AlwaysFriendlyName(answer) == TRUE

\* prop_bag.Read("Description", ..).is_err(): FriendlyName is read next.
NeedsFriendlyName(answer) == answer = "fail"

\* Vec::push of collect(): the record goes to the end.
PushFront(vec, d) == <<d>> \o vec

Push(vec, d) == Append(vec, d)

\* An error that hands back what was collected so far.
PartialResult(e, collected) ==
    [kind |-> "Ok", error |-> "", devices |-> collected]

\* collect::<Result<_>>()? on the first Err, and every other `?`: the call
\* returns Err(e) and the records collected so far are dropped.
ErrResult(e, collected) ==
    [kind |-> "Err", error |-> e, devices |-> << >>]

OkResult(collected) == [kind |-> "Ok", error |-> "", devices |-> collected]

PanicResult(at) == [kind |-> "Panic", error |-> at, devices |-> << >>]

NoResult == [kind |-> "none", error |-> "", devices |-> << >>]

\* What a format descriptor describes, in the words of the specification:
\* width as given, the absolute value of height, and 1e7 / ticks frames per
\* second rounded to 2 decimals (kept in hundredths; 1e7 / 0 is infinite).
Recognized(mt) == mt.formattype \in {FORMAT_VideoInfo, FORMAT_VideoInfo2}

Described(mt) ==
    [width |-> mt.biWidth,
     height |-> IF mt.biHeight >= 0 THEN mt.biHeight ELSE 0 - mt.biHeight,
     frame_rate |->
        IF mt.AvgTimePerFrame = 0 THEN Inf
        ELSE Fin((2000000000 + mt.AvgTimePerFrame)
                 \div (2 * mt.AvgTimePerFrame))]

\* ------------------------------------------------------------------ state
VARIABLES
    pc,         \* position in capture_devices()
    env,        \* the platform: handles attached, formats the pins can offer
    com,        \* successful CoInitializeEx calls and CoUninitialize calls
    devices,    \* the Vec that collect() is filling
    cur,        \* locals of the closure: description, device_path, resolution
    npins,      \* pins the current filter has yielded
    ntypes,     \* media types the current pin has yielded
    result,     \* what the call returned
    yielded,    \* history: per handle yielded, what the platform answered
    hardError   \* history: some native Next call answered a failure HRESULT

vars == <<pc, env, com, devices, cur, npins, ntypes, result, yielded, hardError>>

NoLocals ==
    [description |-> "", device_path |-> "", dir |-> "", resolution |-> << >>]

NewHandle ==
    [Description |-> "unread", FriendlyName |-> "unread",
     DevicePath |-> "unread", failed |-> FALSE,
     offered |-> {}, ticks |-> {}, discovered |-> << >>]

\* The worlds: several devices that offer the basic formats, or one device
\* that offers one of the richer families of formats.
Worlds ==
    { [ndev |-> MaxDevices, formats |-> BasicFormats] }
    \cup { [ndev |-> 1, formats |-> f] :
           f \in {SizeFormats, DegenerateFormats, SlowFormats} }

Init ==
    /\ pc = "CoInitializeEx"
    /\ env \in Worlds
    /\ com = [init |-> 0, uninit |-> 0]
    /\ devices = << >>
    /\ cur = NoLocals
    /\ npins = 0
    /\ ntypes = 0
    /\ result = NoResult
    /\ yielded = << >>
    /\ hardError = FALSE

\* The handle being processed and its history entry.
this == Len(yielded)
Log(field, value) == [yielded EXCEPT ![this][field] = value]


\* ---------------------------------------------------------------- actions
\* Leaving through `?`: the call returns Err(e).  CoUninitialize is reached
\* only on the success path (dshow.rs line 327).
Return(e) ==
    /\ pc' = "returned"
    /\ result' = ErrResult(e, devices)

\* Line 240: CoInitializeEx(None, COINIT_MULTITHREADED)?
CoInitializeEx ==
    /\ pc = "CoInitializeEx"
    /\ \E ok \in BOOLEAN :
         IF ok
         THEN /\ com' = [com EXCEPT !.init = @ + 1]
              /\ pc' = "enumerate_devices"
              /\ UNCHANGED result
         ELSE /\ Return("CoInitializeEx")
              /\ UNCHANGED com
    /\ UNCHANGED <<env, devices, cur, npins, ntypes, yielded, hardError>>

\* Lines 52-70: CoCreateInstance, CreateClassEnumerator, and the check that
\* an enumerator came back (none: the category is missing or empty).
EnumerateDevices ==
    /\ pc = "enumerate_devices"
    /\ \E answer \in {"ok", "CoCreateInstance", "CreateClassEnumerator",
                      "VFW_E_NOT_FOUND"} :
         IF answer = "ok"
         THEN pc' = "moniker_next" /\ UNCHANGED result
         ELSE Return(answer)
    /\ UNCHANGED <<env, com, devices, cur, npins, ntypes, yielded, hardError>>

\* Lines 76-84: MonikerIterator::next.  Some(moniker) enters the closure;
\* None ends map() and collect() hands back Ok(devices).
MonikerNext ==
    /\ pc = "moniker_next"
    /\ \E a \in NextAnswers(Len(yielded) < env.ndev) :
         /\ hardError' = (hardError \/ ~IsOk(a[1]))
         /\ IF IteratorNext(a[1], a[2]) = "Some"
            THEN /\ yielded' = Append(yielded, NewHandle)
                 /\ pc' = "BindToStorage"
            ELSE /\ pc' = "CoUninitialize"
                 /\ UNCHANGED yielded
    /\ cur' = NoLocals
    /\ npins' = 0
    /\ ntypes' = 0
    /\ UNCHANGED <<env, com, devices, result>>

\* Lines 245-254: BindToStorage(..)? and prop_bag.unwrap().
BindToStorage ==
    /\ pc = "BindToStorage"
    /\ \E answer \in {"ok", "fail", "null"} :
         CASE answer = "ok" ->
                /\ pc' = "read_description"
                /\ UNCHANGED <<result, yielded>>
           [] answer = "fail" ->
                /\ Return("BindToStorage")
                /\ yielded' = Log("failed", TRUE)
           [] answer = "null" ->
                /\ pc' = "panicked"
                /\ result' = PanicResult("prop_bag.unwrap")
                /\ yielded' = Log("failed", TRUE)
    /\ UNCHANGED <<env, com, devices, cur, npins, ntypes, hardError>>

\* Lines 269-271 and 281-283: the string is taken and VariantClear(..)? runs.
TakeString(cleared, next) ==
    IF cleared
    THEN /\ pc' = next
         /\ UNCHANGED result
    ELSE Return("VariantClear")

\* Lines 262-265: prop_bag.Read("Description", ..).
ReadDescription ==
    /\ pc = "read_description"
    /\ \E answer \in Strings \cup {"fail"}, cleared \in BOOLEAN :
         IF NeedsFriendlyName(answer)
         THEN /\ pc' = "read_friendly_name"
              /\ yielded' = Log("Description", answer)
              /\ UNCHANGED <<cur, result>>
         ELSE /\ cur' = [cur EXCEPT !.description = answer]
              /\ yielded' = [yielded EXCEPT ![this].Description = answer,
                                            ![this].failed = ~cleared]
              /\ TakeString(cleared, "read_device_path")
    /\ UNCHANGED <<env, com, devices, npins, ntypes, hardError>>

\* Line 266: prop_bag.Read("FriendlyName", ..)?
ReadFriendlyName ==
    /\ pc = "read_friendly_name"
    /\ \E answer \in Strings \cup {"fail"}, cleared \in BOOLEAN :
         IF answer = "fail"
         THEN /\ Return("FriendlyName")
              /\ yielded' = [yielded EXCEPT ![this].FriendlyName = answer,
                                            ![this].failed = TRUE]
              /\ UNCHANGED cur
         ELSE /\ cur' = [cur EXCEPT !.description = answer]
              /\ yielded' = [yielded EXCEPT ![this].FriendlyName = answer,
                                            ![this].failed = ~cleared]
              /\ TakeString(cleared, "read_device_path")
    /\ UNCHANGED <<env, com, devices, npins, ntypes, hardError>>

\* Lines 275-287: prop_bag.Read("DevicePath", ..), String::new() on failure.
ReadDevicePath ==
    /\ pc = "read_device_path"
    /\ \E answer \in {"usb#vid_046d", "fail"}, cleared \in BOOLEAN :
         IF answer = "fail"
         THEN /\ cur' = [cur EXCEPT !.device_path = ""]
              /\ yielded' = Log("DevicePath", answer)
              /\ pc' = "enumerate_pins"
              /\ UNCHANGED result
         ELSE /\ cur' = [cur EXCEPT !.device_path = answer]
              /\ yielded' = [yielded EXCEPT ![this].DevicePath = answer,
                                            ![this].failed = ~cleared]
              /\ TakeString(cleared, "enumerate_pins")
    /\ UNCHANGED <<env, com, devices, npins, ntypes, hardError>>

\* Lines 92-110: BindToObject(..)?, the filter check and EnumPins()?.
EnumeratePins ==
    /\ pc = "enumerate_pins"
    /\ \E answer \in {"ok", "BindToObject", "VFW_E_NOT_FOUND", "EnumPins"} :
         IF answer = "ok"
         THEN /\ pc' = "pin_next"
              /\ UNCHANGED <<result, yielded>>
         ELSE /\ Return(answer)
              /\ yielded' = Log("failed", TRUE)
    /\ UNCHANGED <<env, com, devices, cur, npins, ntypes, hardError>>

\* Lines 116-124: PinIterator::next.  None ends the pin loop.
PinNext ==
    /\ pc = "pin_next"
    /\ \E a \in NextAnswers(npins < MaxPins) :
         /\ hardError' = (hardError \/ ~IsOk(a[1]))
         /\ IF IteratorNext(a[1], a[2]) = "Some"
            THEN /\ npins' = npins + 1
                 /\ pc' = "QueryPinInfo"
            ELSE /\ pc' = "sort"
                 /\ UNCHANGED npins
    /\ UNCHANGED <<env, com, devices, cur, ntypes, result, yielded>>

\* Lines 293-296: pin.QueryPinInfo()? and the output filter.
QueryPinInfo ==
    /\ pc = "QueryPinInfo"
    /\ \E answer \in {PINDIR_INPUT, PINDIR_OUTPUT, "fail"} :
         CASE answer = "fail" ->
                /\ Return("QueryPinInfo")
                /\ yielded' = Log("failed", TRUE)
                /\ UNCHANGED cur
           [] answer = PINDIR_OUTPUT ->
                /\ pc' = "enumerate_media_types"
                /\ cur' = [cur EXCEPT !.dir = answer]
                /\ UNCHANGED <<result, yielded>>
           [] answer = PINDIR_INPUT ->
                /\ pc' = "pin_next"
                /\ UNCHANGED <<cur, result, yielded>>
    /\ UNCHANGED <<env, com, devices, npins, ntypes, hardError>>

\* Lines 201-204 and 299: MediaTypeIterator::enumerate_media_types(&pin)?
EnumerateMediaTypes ==
    /\ pc = "enumerate_media_types"
    /\ \E ok \in BOOLEAN :
         IF ok
         THEN /\ pc' = "media_type_next"
              /\ ntypes' = 0
              /\ UNCHANGED <<result, yielded>>
         ELSE /\ Return("EnumMediaTypes")
              /\ yielded' = Log("failed", TRUE)
              /\ UNCHANGED ntypes
    /\ UNCHANGED <<env, com, devices, cur, npins, hardError>>

\* Lines 210-219 and 300-309: MediaTypeIterator::next and the loop body.
\* A descriptor with a bitmap header becomes a resolution and is inserted;
\* any other descriptor is dropped.  None ends the loop over this pin.
MediaTypeNext ==
    /\ pc = "media_type_next"
    /\ \E a \in NextAnswers(ntypes < MaxTypes) :
         /\ hardError' = (hardError \/ ~IsOk(a[1]))
         /\ IF IteratorNext(a[1], a[2]) = "Some"
            THEN \E mt \in env.formats :
                   /\ ntypes' = ntypes + 1
                   /\ pc' = "media_type_next"
                   /\ cur' = IF BitmapInfo(mt) = "Some"
                             THEN [cur EXCEPT !.resolution =
                                     HashSetInsert(@, Resolution(mt))]
                             ELSE cur
                   /\ yielded' =
                        IF Recognized(mt) /\ cur.dir = PINDIR_OUTPUT
                        THEN [yielded EXCEPT
                                ![this].offered = @ \cup {Described(mt)},
                                ![this].ticks = @ \cup {mt.AvgTimePerFrame}]
                        ELSE yielded
            ELSE /\ pc' = "pin_next"
                 /\ cur' = [cur EXCEPT !.dir = ""]
                 /\ UNCHANGED <<ntypes, yielded>>
    /\ UNCHANGED <<env, com, devices, npins, result>>

\* Lines 312-323: the set is collected and sorted, and the record is built
\* and pushed by collect().  unwrap() on a None comparison panics.
SortAndPush ==
    /\ pc = "sort"
    /\ IF SortPanics(cur.resolution)
       THEN /\ pc' = "panicked"
            /\ result' = PanicResult("partial_cmp.unwrap")
            /\ UNCHANGED <<devices, yielded>>
       ELSE \E sorted \in SortUnstableBy(cur.resolution) :
              /\ devices' = Push(devices,
                                 [name |-> cur.device_path,
                                  description |-> cur.description,
                                  resolution |-> sorted])
              /\ yielded' = Log("discovered", cur.resolution)
              /\ pc' = "moniker_next"
              /\ UNCHANGED result
    /\ UNCHANGED <<env, com, cur, npins, ntypes, hardError>>

\* Lines 327-329: CoUninitialize() and Ok(devices.into_iter()).
CoUninitialize ==
    /\ pc = "CoUninitialize"
    /\ com' = [com EXCEPT !.uninit = @ + 1]
    /\ result' = OkResult(devices)
    /\ pc' = "returned"
    /\ UNCHANGED <<env, devices, cur, npins, ntypes, yielded, hardError>>

Next ==
    \/ CoInitializeEx
    \/ EnumerateDevices
    \/ MonikerNext
    \/ BindToStorage
    \/ ReadDescription
    \/ ReadFriendlyName
    \/ ReadDevicePath
    \/ EnumeratePins
    \/ PinNext
    \/ QueryPinInfo
    \/ EnumerateMediaTypes
    \/ MediaTypeNext
    \/ SortAndPush
    \/ CoUninitialize

Spec == Init /\ [][Next]_vars

\* ----------------------------------------------------------------- claims
\* The records a caller can see: those returned, and before the return those
\* collected so far.
Records == IF result.kind = "Ok" THEN result.devices ELSE devices

Returned == pc = "returned"

\* The description and name the platform's answers give handle h.
DescriptionOf(h) ==
    IF h.Description \in Strings THEN h.Description ELSE h.FriendlyName

NameOf(h) == IF h.DevicePath = "fail" THEN "" ELSE h.DevicePath

\* x >= y on products, as IEEE-754 orders them (false when either is NaN).
ProductGe(x, y) ==
    /\ x.kind # "nan"
    /\ y.kind # "nan"
    /\ \/ x.kind = "inf"
       \/ x.kind = "fin" /\ y.kind = "fin" /\ x.v >= y.v

ProductTie(a, b) == ProductGe(Product(a), Product(b))
                    /\ ProductGe(Product(b), Product(a))

\* The place of entry r in sequence s (0 when absent).
IndexIn(s, r) ==
    IF \E i \in 1..Len(s) : s[i] = r
    THEN CHOOSE i \in 1..Len(s) : s[i] = r
    ELSE 0

\* C1: every call that acquired the COM session has released it exactly
\* once when it returns, whatever the exit path.
C1_ReleasedOnEveryExit ==
    Returned => com.uninit = com.init

\* C2: all-or-nothing.  When the call has returned: if a step failed for
\* some device, the call returned an error and no record at all; and if the
\* enumerator was created and no step failed for any device, it returned a
\* record for every device the enumerator yielded.
C2_AllOrNothing ==
    Returned =>
      /\ (\E i \in 1..Len(yielded) : yielded[i].failed)
           => result.kind = "Err" /\ result.devices = << >>
      /\ result.kind # "Ok" => result.devices = << >>
      /\ ( /\ \A i \in 1..Len(yielded) : ~yielded[i].failed
           /\ result.error \notin {"CoInitializeEx", "CoCreateInstance",
                                   "CreateClassEnumerator", "VFW_E_NOT_FOUND"} )
           => result.kind = "Ok" /\ Len(result.devices) = Len(yielded)

\* C2 witness: the first device was processed and collected, the second
\* failed, and the call returned.
C2_Witness ==
    /\ Returned
    /\ Len(yielded) = 2
    /\ Len(devices) = 1
    /\ yielded[2].failed
    /\ result.kind = "Err"

\* C3: on success there is exactly one record per handle yielded, and the
\* i-th record is built from what the platform answered for the i-th handle.
C3_OrderPreserved ==
    result.kind = "Ok" =>
      /\ Len(result.devices) = Len(yielded)
      /\ \A i \in 1..Len(yielded) :
           /\ result.devices[i].description = DescriptionOf(yielded[i])
           /\ result.devices[i].name = NameOf(yielded[i])
           /\ Range(result.devices[i].resolution) = Range(yielded[i].discovered)

\* C3 witness: success with two devices that differ.
C3_Witness ==
    /\ result.kind = "Ok"
    /\ Len(result.devices) = 2
    /\ result.devices[1].description # result.devices[2].description
    /\ result.devices[1].resolution # result.devices[2].resolution

\* C4: the description falls back in two steps.  If reading Description
\* succeeded, FriendlyName is never read and the record carries the
\* Description; if it failed, FriendlyName is read and, when that succeeds,
\* the record carries it; if both failed the call fails and the device has
\* no record.
C4_DescriptionFallback ==
    \A i \in 1..Len(yielded) :
      LET h == yielded[i]
          collected == i <= Len(Records)
      IN  /\ h.Description \in Strings =>
                /\ h.FriendlyName = "unread"
                /\ collected => Records[i].description = h.Description
          /\ h.Description = "fail" =>
                /\ h.FriendlyName = "unread" => pc = "read_friendly_name"
                /\ (h.FriendlyName \in Strings /\ collected)
                     => Records[i].description = h.FriendlyName
                /\ h.FriendlyName = "fail" =>
                     /\ ~collected
                     /\ Returned
                     /\ result.kind = "Err"
                     /\ result.devices = << >>

\* C4 witness: a returned record whose description came from FriendlyName
\* after Description failed.
C4_Witness ==
    /\ result.kind = "Ok"
    /\ Len(result.devices) >= 1
    /\ yielded[1].Description = "fail"
    /\ yielded[1].FriendlyName = "USB Camera"
    /\ result.devices[1].description = "USB Camera"

\* C5: no resolution list holds two entries with equal width, equal height
\* and equal frame rate rounded to 2 decimals.
C5_NoDuplicates ==
    \A k \in 1..Len(Records) :
      LET res == Records[k].resolution
      IN  \A i, j \in 1..Len(res) :
            ( /\ res[i].width = res[j].width
              /\ res[i].height = res[j].height
              /\ res[i].frame_rate = res[j].frame_rate ) => i = j

\* C5 witness: descriptors of 333332 and 333334 ticks that describe one
\* size were offered, and the returned record has exactly one entry.
C5_Witness ==
    /\ result.kind = "Ok"
    /\ Len(result.devices) = 1
    /\ yielded[1].ticks = {333332, 333334}
    /\ Cardinality(yielded[1].offered) = 1
    /\ Len(result.devices[1].resolution) = 1
    /\ result.devices[1].resolution[1].frame_rate = Fin(3000)

\* C6: every resolution list is sorted descending by
\* width * height * frame_rate.
C6_SortedDescending ==
    \A k \in 1..Len(Records) :
      LET res == Records[k].resolution
      IN  \A i \in 1..(Len(res) - 1) :
            ProductGe(Product(res[i]), Product(res[i + 1]))

\* C6 witness: a returned list of three entries with falling products.
C6_Witness ==
    /\ result.kind = "Ok"
    /\ Len(result.devices) = 1
    /\ LET res == result.devices[1].resolution
       IN  /\ Len(res) = 3
           /\ ~ProductTie(res[1], res[2])
           /\ ~ProductTie(res[2], res[3])

C8_ExactlyTheOffered ==
    \A k \in 1..Len(Records) :
      Range(Records[k].resolution) = yielded[k].offered

\* C9: no product is NaN, so the comparison is total and the sort step
\* never aborts the call.
C9_SortNeverAborts ==
    pc = "panicked" => result.error # "partial_cmp.unwrap"

\* C10: a hard error signalled by a native Next call is not taken for the
\* end of the sequence: a call that saw one does not return success.
C10_HardErrorPropagates ==
    (Returned /\ hardError) => result.kind = "Err"

=============================================================================
